---- MODULE Spec2Model ----
(***************************************************************************)
(* A model of the UPS rating client: the OAuth token lifecycle manager     *)
(* (src/src/core/auth/token-manager.ts) and the rate operation with its    *)
(* error classification chain                                              *)
(* (src/src/carriers/ups/operations/rate.operation.ts).                    *)
(*                                                                         *)
(* JavaScript runs the code on one thread: a piece of code between two     *)
(* awaits is one atomic step.  Each action below is one such piece.        *)
(* Optional values (undefined in the source) are sequences of length 0     *)
(* or 1.  Strings that the code searches with includes() are sequences of  *)
(* fragments, and includes() looks for a fragment.                         *)
(***************************************************************************)
EXTENDS Integers, Sequences, FiniteSets, TLC

\* ------------------------------------------------------------------ bounds
\* getToken()/execute() calls issued on the one TokenManager instance
MaxCalls == 3
\* fetchToken invocations the environment answers
MaxFetches == 2
\* the clock stops advancing here (milliseconds)
MaxTime == 75000
\* execute() calls issued on the one UpsRateOperation instance
MaxExecs == 2
\* entries of an alert list of a response
MaxAlerts == 1
\* packages of a rate request
MaxPackages == 2
MaxListedAlerts == 2
MaxRatedPackages == 2

\* ------------------------------------------------------- program constants
\* token-manager.ts:31  "- 30000"
BufferMs == 30000
\* token-manager.ts:31  "res.expires_in * 1000"
MsPerSecond == 1000
\* rate.operation.ts:119  the timeout reported by TimeoutError
TimeoutMs == 30000

\* ------------------------------------------------------------- optionals
None == <<>>
Some(v) == <<v>>
IsSome(o) == o /= <<>>
Get(o) == o[1]

Calls == 1..MaxCalls

\* ------------------------------------------------------------ error values
\* A thrown value as the catch chain sees it: its class (instanceof), and the
\* fields the chain reads: name, code, message, response.
ErrorValue(cls, name, code, message, response) ==
  [cls |-> cls, name |-> name, code |-> code, message |-> message,
   response |-> response]

\* new Error("Network error"), the failure of the test at part_000:117
PlainNetworkError ==
  ErrorValue("Error", Some(<<"Error">>), None, Some(<<"Network", "error">>), None)

\* a connection failure of the OAuth endpoint: an Error with code ECONNREFUSED
ConnRefusedError ==
  ErrorValue("Error", Some(<<"Error">>), Some("ECONNREFUSED"),
             Some(<<"connect", "ECONNREFUSED">>), None)


\* error.message.includes(w), error.name.includes(w): a fragment search
Includes(str, w) == \E i \in DOMAIN str : str[i] = w

\* message texts
MsgStatus == <<"Request", "failed", "with", "status", "code">>
MsgTimeout == <<"timeout", "of", "30000ms", "exceeded">>
MsgNetwork == <<"Network", "Error">>
MsgJson == <<"Unexpected", "token", "in", "JSON">>
\* part_004:200 and part_004:205
MsgMissingRateResponse == <<"Invalid", "UPS", "response:", "missing", "RateResponse">>
MsgMissingRatedShipment == <<"Invalid", "UPS", "response:", "missing", "RatedShipment">>

\* the name an instance of a class carries
NameOf(cls) ==
  CASE cls = "Error" -> Some(<<"Error">>)
    [] cls = "AxiosError" -> Some(<<"Axios", "Error">>)
    [] cls = "SyntaxError" -> Some(<<"Syntax", "Error">>)
    [] cls = "TypeError" -> Some(<<"Type", "Error">>)
    [] OTHER -> None

\* the TypeError a property access on undefined raises inside the catch block
TypeErrorValue ==
  ErrorValue("TypeError", NameOf("TypeError"), None,
             Some(<<"Cannot", "read", "properties", "of", "undefined">>), None)

\* ---------------------------------------------- the error taxonomy, part_005
Taxonomy ==
  {"AuthenticationError", "ValidationError", "HttpClientError", "HttpServerError",
   "RateLimitError", "TimeoutError", "NetworkError", "MalformedResponseError"}

\* part_005:1-12  ShippingServiceError(code, message, statusCode, details) and
\* the public fields of its subclasses
ShippingServiceError(cls, code, statusCode) ==
  [cls |-> cls, code |-> Some(code), statusCode |-> statusCode,
   retryable |-> None, retryAfterMs |-> None, timeoutMs |-> None,
   rawResponse |-> None, originalError |-> None]

\* part_005:14-20
AuthenticationError == ShippingServiceError("AuthenticationError", "AUTH_FAILED", Some(401))
\* part_005:22-28
ValidationError ==
  ShippingServiceError("ValidationError", "VALIDATION_ERROR", Some(400))
\* (mutant) the timeout budget is not recorded on the error
M_TimeoutError_NoBudget(timeoutMs) ==
  ShippingServiceError("TimeoutError", "TIMEOUT", None)
\* part_005:30-40
TimeoutError(timeoutMs) ==
  [ShippingServiceError("TimeoutError", "TIMEOUT", None) EXCEPT !.timeoutMs = Some(timeoutMs)]
\* part_005:42-53
HttpServerError(statusCode, retryable) ==
  [ShippingServiceError("HttpServerError", "HTTP_SERVER_ERROR", Some(statusCode))
     EXCEPT !.retryable = Some(retryable)]
\* part_005:55-65
HttpClientError(statusCode) ==
  ShippingServiceError("HttpClientError", "HTTP_CLIENT_ERROR", Some(statusCode))
\* part_005:67-77
MalformedResponseError(rawResponse) ==
  [ShippingServiceError("MalformedResponseError", "MALFORMED_RESPONSE", None)
     EXCEPT !.rawResponse = rawResponse]
\* part_005:79-89
RateLimitError(retryAfterMs) ==
  [ShippingServiceError("RateLimitError", "RATE_LIMIT", Some(429))
     EXCEPT !.retryAfterMs = retryAfterMs]
\* part_005:91-101
NetworkError(originalError) ==
  [ShippingServiceError("NetworkError", "NETWORK_ERROR", None)
     EXCEPT !.originalError = Some(originalError)]

\* What execute() throws: a taxonomy member it constructs, the caught value
\* itself, or an exception raised by the catch block.
ThrowNew(value) == [how |-> "new", value |-> value]
Rethrow(error) == [how |-> "same", value |-> error]
ThrowSecondary == [how |-> "secondary", value |-> TypeErrorValue]

\* ------------------------------------------------- numbers of the 429 branch
\* a JavaScript number: an integer or NaN
Num(v) == [nan |-> FALSE, v |-> v]
NaN == [nan |-> TRUE, v |-> 0]
Digits == <<"0", "1", "2", "3", "4", "5", "6", "7", "8", "9">>
IsDigit(ch) == \E d \in DOMAIN Digits : Digits[d] = ch
DigitValue(ch) == (CHOOSE d \in DOMAIN Digits : Digits[d] = ch) - 1
\* the number of leading digit characters
LeadingDigits(chars) ==
  IF \A i \in DOMAIN chars : IsDigit(chars[i]) THEN Len(chars)
  ELSE (CHOOSE i \in DOMAIN chars :
          ~IsDigit(chars[i]) /\ \A j \in 1..(i - 1) : IsDigit(chars[j])) - 1
RECURSIVE DigitsValue(_, _)
DigitsValue(chars, n) ==
  IF n = 0 THEN 0 ELSE 10 * DigitsValue(chars, n - 1) + DigitValue(chars[n])
\* parseInt(text): the leading digits, NaN when there is none
ParseInt(chars) ==
  IF LeadingDigits(chars) = 0 THEN NaN ELSE Num(DigitsValue(chars, LeadingDigits(chars)))
\* rate.operation.ts:94  retryAfter ? parseInt(retryAfter) * 1000 : undefined
RetryAfterMs(retryAfter) ==
  IF retryAfter = None \/ Get(retryAfter) = <<>> THEN None
  ELSE LET n == ParseInt(Get(retryAfter))
       IN Some(IF n.nan THEN NaN ELSE Num(n.v * 1000))

\* JSON.stringify(data): undefined for undefined, a text otherwise
JsonStringify(data) ==
  IF data = None THEN None ELSE Some([text |-> TRUE, of |-> Get(data)])
\* the body as the transport delivered it
RawBody(data) ==
  IF data = None THEN None ELSE Some([text |-> FALSE, of |-> Get(data)])

\* error.response?.status
StatusOf(error) ==
  IF error.response = None THEN None ELSE Get(error.response).status
\* error.response?.data
DataOf(error) ==
  IF error.response = None THEN None ELSE Get(error.response).data
\* error.message?.includes(w)
MessageIncludes(error, w) == IsSome(error.message) /\ Includes(Get(error.message), w)
\* error.response?.status is a number other than 0 (truthy)
HasStatus(error) == IsSome(StatusOf(error)) /\ Get(StatusOf(error)) /= 0
\* status && status >= 400 && status < 500
Is4xx(error) ==
  HasStatus(error) /\ Get(StatusOf(error)) >= 400 /\ Get(StatusOf(error)) < 500
\* status && status >= 500
Is5xx(error) == HasStatus(error) /\ Get(StatusOf(error)) >= 500

\* rate.operation.ts:71-157  the catch chain of execute(), first match wins
Classify(error) ==
  IF error.cls = "Nullish" THEN ThrowSecondary                      \* line 72
  ELSE IF StatusOf(error) = Some(401) THEN ThrowNew(AuthenticationError)
  ELSE IF StatusOf(error) = Some(400) THEN ThrowNew(HttpClientError(400))
  ELSE IF StatusOf(error) = Some(429) THEN
    IF Get(error.response).headers = None THEN ThrowSecondary       \* line 91
    ELSE ThrowNew(RateLimitError(RetryAfterMs(Get(Get(error.response).headers))))
  ELSE IF Is4xx(error) THEN ThrowNew(HttpClientError(Get(StatusOf(error))))
  ELSE IF Is5xx(error) THEN ThrowNew(HttpServerError(Get(StatusOf(error)), TRUE))
  ELSE IF error.code = Some("ECONNABORTED") THEN ThrowNew(TimeoutError(TimeoutMs))
  ELSE IF error.message = None THEN ThrowSecondary                  \* line 116
  ELSE IF Includes(Get(error.message), "timeout") THEN ThrowNew(TimeoutError(TimeoutMs))
  ELSE IF error.code \in {Some("ENOTFOUND"), Some("ECONNREFUSED")} THEN
    ThrowNew(NetworkError(error))
  ELSE IF MessageIncludes(error, "JSON") \/ error.cls = "SyntaxError" THEN
    ThrowNew(MalformedResponseError(RawBody(DataOf(error))))
  ELSE IF MessageIncludes(error, "missing") \/ MessageIncludes(error, "RateResponse") THEN
    ThrowNew(MalformedResponseError(JsonStringify(DataOf(error))))
  ELSE IF IsSome(error.name) /\ Includes(Get(error.name), "Error") /\ IsSome(error.code) THEN
    Rethrow(error)
  ELSE ThrowNew(HttpServerError(500, TRUE))

\* ------------------------------------------------------------- numbers
\* a JavaScript number with a finite decimal expansion: m / 10^d, in lowest
\* form (no trailing zero among the d decimals)
RECURSIVE Decimal(_, _)
Decimal(m, d) ==
  IF d > 0 /\ m % 10 = 0 THEN Decimal(m \div 10, d - 1)
  ELSE [nan |-> FALSE, m |-> m, d |-> d]
\* the characters after the first n
Drop(chars, n) == SubSeq(chars, n + 1, Len(chars))
\* (mutant) parseFloat reads the integer part only
M_ParseFloat_IntegerOnly(chars) ==
  IF LeadingDigits(chars) = 0 THEN NaN
  ELSE Decimal(DigitsValue(chars, LeadingDigits(chars)), 0)
\* parseFloat(text): the longest leading numeral  digits [. digits],  NaN
\* when the text does not start with one
ParseFloat(chars) ==
  LET intLen == LeadingDigits(chars)
      rest == Drop(chars, intLen)
      fracLen == IF Len(rest) > 0 /\ rest[1] = "." THEN LeadingDigits(Drop(rest, 1)) ELSE 0
      digits == SubSeq(chars, 1, intLen) \o SubSeq(rest, 2, fracLen + 1)
  IN IF intLen = 0 /\ fracLen = 0 THEN NaN
     ELSE Decimal(DigitsValue(digits, Len(digits)), fracLen)

\* ------------------------------------------------------ parseUpsResponse
\* a JSON array / a JSON object that is not an array
Arr(items) == [isArray |-> TRUE, items |-> items]
Obj(fields) == [isArray |-> FALSE, fields |-> fields]
\* a present text that is not the empty text (truthy)
Truthy(o, empty) == IsSome(o) /\ Get(o) /= empty
\* (mutant) the fallback is used only for a field that is not there at all
M_OrElse_EmptyKept(o, empty, fallback) == IF IsSome(o) THEN Get(o) ELSE empty
\* x || fallback for an optional text
OrElse(o, empty, fallback) == IF Truthy(o, empty) THEN Get(o) ELSE fallback

\* the TypeError `alert.Description` raises for a null entry of an alert list
AlertTypeError ==
  ErrorValue("TypeError", NameOf("TypeError"), None,
             Some(<<"Cannot", "read", "properties", "of", "null", "(reading", "'Description')">>),
             None)
\* the Error of part_004:198-206
MissingFieldError(message) ==
  ErrorValue("Error", NameOf("Error"), None, Some(message), None)

\* (mutant) of a RatedPackage list the last entry is taken
M_FirstRatedPackage_Last(RatedPackage) ==
  IF RatedPackage = None THEN None
  ELSE IF Get(RatedPackage).isArray
    THEN (IF Len(Get(RatedPackage).items) = 0 THEN None
          ELSE Some(Get(RatedPackage).items[Len(Get(RatedPackage).items)]))
    ELSE Some(Get(RatedPackage).fields)
\* part_004:216-218  the first entry of a RatedPackage list, or the object
FirstRatedPackage(RatedPackage) ==
  IF RatedPackage = None THEN None
  ELSE IF Get(RatedPackage).isArray
    THEN (IF Len(Get(RatedPackage).items) = 0 THEN None ELSE Some(Get(RatedPackage).items[1]))
    ELSE Some(Get(RatedPackage).fields)
\* part_004:220-226  RatedPackage?.<charge>?.MonetaryValue ? parseFloat(...) : undefined
ChargeOf(charge) ==
  IF charge = None \/ ~Truthy(Get(charge).MonetaryValue, <<>>) THEN None
  ELSE Some(ParseFloat(Get(Get(charge).MonetaryValue)))
\* part_004:230-244  the entries of one alert list: a list is read only when
\* it is an array
AlertItems(alertList) ==
  IF alertList = None \/ ~Get(alertList).isArray THEN <<>> ELSE Get(alertList).items
\* reading alert.Description of a null entry throws
AlertsThrow(alertList) ==
  \E i \in DOMAIN AlertItems(alertList) : AlertItems(alertList)[i] = None
\* the descriptions pushed, in order
RECURSIVE Descriptions(_)
Descriptions(items) ==
  IF items = <<>> THEN <<>>
  ELSE (IF Truthy(Get(Head(items)).Description, "")
          THEN <<Get(Get(Head(items)).Description)>> ELSE <<>>)
       \o Descriptions(Tail(items))

\* RateResponse.Response?.Alert
ResponseAlert(RateResponse) ==
  IF RateResponse.Response = None THEN None ELSE Get(RateResponse.Response).Alert
\* (mutant) the alerts of the response are gathered before those of the shipment
M_Alerts_ResponseFirst(RateResponse, RatedShipment) ==
  Descriptions(AlertItems(ResponseAlert(RateResponse)))
    \o Descriptions(AlertItems(RatedShipment.RatedShipmentAlert))
\* part_004:228-244  the alerts array after both forEach loops
Alerts(RateResponse, RatedShipment) ==
  Descriptions(AlertItems(RatedShipment.RatedShipmentAlert))
    \o Descriptions(AlertItems(ResponseAlert(RateResponse)))

\* part_004:208-257  the quote built from a response that has both sections
Quote(RateResponse, RatedShipment) ==
  LET Service == IF RatedShipment.Service = None
                   THEN [Code |-> None, Description |-> None]
                   ELSE Get(RatedShipment.Service)
      TotalCharges == IF RatedShipment.TotalCharges = None
                        THEN [MonetaryValue |-> None, CurrencyCode |-> None]
                        ELSE Get(RatedShipment.TotalCharges)
      RatedPackage == FirstRatedPackage(RatedShipment.RatedPackage)
      alerts == Alerts(RateResponse, RatedShipment)
  IN [carrier |-> "UPS",
      serviceCode |-> OrElse(Service.Code, "", ""),
      serviceName |-> IF Truthy(Service.Description, "") THEN Service.Description ELSE None,
      amount |-> ParseFloat(OrElse(TotalCharges.MonetaryValue, <<>>, <<"0">>)),
      currency |-> OrElse(TotalCharges.CurrencyCode, "", "USD"),
      baseCharge |-> IF RatedPackage = None THEN None
                     ELSE ChargeOf(Get(RatedPackage).BaseServiceCharge),
      transportationCharge |-> IF RatedPackage = None THEN None
                               ELSE ChargeOf(Get(RatedPackage).TransportationCharges),
      alerts |-> IF Len(alerts) > 0 THEN Some(alerts) ELSE None]

\* part_004:186-257 parseUpsResponse(response): a one-element list of quotes,
\* or the value thrown
parseUpsResponse(response) ==
  LET RateResponse == IF response = None THEN None ELSE Get(response).RateResponse
  IN IF RateResponse = None THEN
       [ok |-> FALSE, quotes |-> <<>>, error |-> Some(MissingFieldError(MsgMissingRateResponse))]
     ELSE IF Get(RateResponse).RatedShipment = None THEN
       [ok |-> FALSE, quotes |-> <<>>, error |-> Some(MissingFieldError(MsgMissingRatedShipment))]
     ELSE IF \/ AlertsThrow(Get(Get(RateResponse).RatedShipment).RatedShipmentAlert)
             \/ /\ IsSome(Get(RateResponse).Response)
                /\ AlertsThrow(Get(Get(RateResponse).Response).Alert) THEN
       [ok |-> FALSE, quotes |-> <<>>, error |-> Some(AlertTypeError)]
     ELSE
       [ok |-> TRUE,
        quotes |-> <<Quote(Get(RateResponse), Get(Get(RateResponse).RatedShipment))>>,
        error |-> None]

\* ------------------------------------------------------- mapToUpsRequest
RECURSIVE Pow10(_)
Pow10(d) == IF d = 0 THEN 1 ELSE 10 * Pow10(d - 1)
\* the decimal digits of a natural number
RECURSIVE DigitsOf(_)
DigitsOf(n) ==
  IF n < 10 THEN <<Digits[n + 1]>> ELSE DigitsOf(n \div 10) \o <<Digits[(n % 10) + 1]>>
\* the digits of n, padded with zeros on the left to width d
RECURSIVE Padded(_, _)
Padded(n, d) == IF d = 0 THEN <<>> ELSE Padded(n \div 10, d - 1) \o <<Digits[(n % 10) + 1]>>
\* (mutant) String(n) with one decimal always written
M_String_OneDecimal(number) ==
  DigitsOf(number.m \div Pow10(number.d)) \o <<".">>
    \o (IF number.d = 0 THEN <<"0">> ELSE Padded(number.m % Pow10(number.d), number.d))
\* String(n) of a non-negative number between 1e-6 and 1e21, where no
\* exponent is written: the shortest decimal text
String(number) ==
  IF number.d = 0 THEN DigitsOf(number.m)
  ELSE DigitsOf(number.m \div Pow10(number.d)) \o <<".">>
         \o Padded(number.m % Pow10(number.d), number.d)

\* (mutant) every weight is described as pounds
M_WeightUnitDescription_Pounds(weightUnit) == "Pounds"
\* part_004:176  pkg.weightUnit === 'LBS' ? 'Pounds' : 'Kilograms'
WeightUnitDescription(weightUnit) == IF weightUnit = "LBS" THEN "Pounds" ELSE "Kilograms"
\* part_004:167  pkg.dimensionUnit === 'IN' ? 'Inches' : 'Centimeters'
DimensionUnitDescription(dimensionUnit) ==
  IF dimensionUnit = "IN" THEN "Inches" ELSE "Centimeters"

\* part_004:159-180  one entry of Shipment.Package
UpsPackage(pkg) ==
  [PackagingType |-> [Code |-> "02", Description |-> "Packaging"],
   Dimensions |->
     [UnitOfMeasurement |->
        [Code |-> pkg.dimensionUnit,
         Description |-> DimensionUnitDescription(pkg.dimensionUnit)],
      Length |-> String(pkg.length),
      Width |-> String(pkg.width),
      Height |-> String(pkg.height)],
   PackageWeight |->
     [UnitOfMeasurement |->
        [Code |-> pkg.weightUnit,
         Description |-> WeightUnitDescription(pkg.weightUnit)],
      Weight |-> String(pkg.weight)]]

\* (mutant) the state is copied as it is, absent when the input has none
M_UpsAddress_StateCopied(address) ==
  [AddressLine |-> address.addressLines,
   City |-> address.city,
   StateProvinceCode |-> address.state,
   PostalCode |-> address.postalCode,
   CountryCode |-> address.countryCode]
\* part_004:118-124  an address of the document (state || '')
UpsAddress(address) ==
  [AddressLine |-> address.addressLines,
   City |-> address.city,
   StateProvinceCode |-> OrElse(address.state, "", ""),
   PostalCode |-> address.postalCode,
   CountryCode |-> address.countryCode]

\* part_004:106-183  mapToUpsRequest(request, shipperNumber); the
\* TransactionIdentifier, a random UUID, is left out
mapToUpsRequest(request, shipperNumber) ==
  [RateRequest |->
     [Request |-> [TransactionReference |-> [CustomerContext |-> "RatingService"]],
      Shipment |->
        [Shipper |-> [Name |-> request.shipFrom.name, ShipperNumber |-> shipperNumber,
                      Address |-> UpsAddress(request.shipFrom)],
         ShipTo |-> [Name |-> request.shipTo.name, Address |-> UpsAddress(request.shipTo)],
         ShipFrom |-> [Name |-> request.shipFrom.name,
                       Address |-> UpsAddress(request.shipFrom)],
         PaymentDetails |->
           [ShipmentCharge |-> [Type |-> "01",
                                 BillShipper |-> [AccountNumber |-> shipperNumber]]],
         Service |-> [Code |-> "03", Description |-> "Ground"],
         NumOfPieces |-> String(Decimal(Len(request.packages), 0)),
         Package |-> [i \in DOMAIN request.packages |-> UpsPackage(request.packages[i])]]]]

\* ------------------------------------------------- what the environment does
\* failures fetchToken rejects with
FetchErrors == {PlainNetworkError, ConnRefusedError}
\* access_token of the p-th answer of the token endpoint: a new token each
\* time (test doubles of part_000:53-54)
AccessTokenOf(p) == IF p = 1 THEN "token-1" ELSE IF p = 2 THEN "token-2" ELSE "token-n"
\* expires_in values, seconds: at the buffer, just above it, and the 100 of
\* the test at part_000:75
ExpiresIn == {30, 36, 100}
\* the clock advances by one of these amounts (milliseconds)
Steps == {6000, 69000}
\* the same, where the rate operation is explored: past every expiry at once
ExecSteps == {MaxTime}

\* ---- failures the transport rejects with
\* an HTTP error response: status, headers (absent, or with or without a
\* retry-after text), body
Response(status, headers, data) == [status |-> status, headers |-> headers, data |-> data]
Statuses == {400, 401, 404, 429, 499, 500, 504, 599}
ErrorResponses ==
  {Response(Some(st), h, Some("error-body")) : st \in Statuses, h \in {None, Some(None)}}
    \cup {Response(Some(429), Some(Some(ra)), Some("error-body")) :
            ra \in {<<"5">>, <<"0">>, <<"1", "2", "0">>, <<"a", "b", "c">>, <<>>}}
\* a response that carries no error status
OtherResponses ==
  {Response(None, Some(None), None), Response(Some(302), Some(None), Some("error-body"))}
\* failures that carry a response: an AxiosError, or a plain object that has
\* no message
ResponseErrors ==
  {ErrorValue(cls, NameOf(cls), code, IF cls = "Object" THEN None ELSE Some(MsgStatus), Some(r)) :
     cls \in {"AxiosError", "Object"},
     code \in {Some("ERR_BAD_RESPONSE"), Some("ECONNABORTED")},
     r \in ErrorResponses \cup OtherResponses}
\* failures without a response: connection level, parse level, plain objects;
\* an Error instance always has a message, a plain object may have none
ConnectionErrors ==
  {e \in {ErrorValue(cls, NameOf(cls), code, message, None) :
            cls \in {"Error", "SyntaxError", "Object"},
            code \in {None, Some("ECONNABORTED"), Some("ENOTFOUND"), Some("ECONNREFUSED"),
                      Some("ERR_NETWORK")},
            message \in {None, Some(MsgTimeout), Some(MsgNetwork), Some(MsgJson),
                         Some(MsgMissingRateResponse)}} :
     e.cls = "Object" \/ e.message /= None}
\* throw null / throw undefined
NullishError == ErrorValue("Nullish", None, None, None, None)
\* instances of the taxonomy raised below the operation, with the defaults of
\* part_005
TaxonomyInstance(cls, code, message) ==
  ErrorValue(cls, Some(<<cls, "Error">>), Some(code), Some(message), None)
TaxonomyErrors ==
  {TaxonomyInstance("AuthenticationError", "AUTH_FAILED", <<"Authentication", "failed">>),
   TaxonomyInstance("TimeoutError", "TIMEOUT", <<"Request", "timeout">>),
   TaxonomyInstance("ValidationError", "VALIDATION_ERROR", <<"Validation", "failed:", "missing", "city">>)}
TransportErrors ==
  ResponseErrors \cup ConnectionErrors \cup {NullishError} \cup TaxonomyErrors

\* ---- bodies of a 2xx response (response.data)
\* every sequence over S of length at most n
SeqsUpTo(S, n) == UNION {[1..k -> S] : k \in 0..n}
Text(chars) == Some(chars)
MonetaryValues ==
  {None, Text(<<>>), Text(<<"0">>), Text(<<"1", "5", ".", "5", "4">>),
   Text(<<"7", ".", "5", "0">>), Text(<<"a", "b", "c">>)}
Charge(MonetaryValue) == Some([MonetaryValue |-> MonetaryValue])
Services ==
  {None,
   Some([Code |-> None, Description |-> Some("")]),
   Some([Code |-> Some("03"), Description |-> Some("Ground")])}
TotalChargesValues ==
  {None} \cup {Some([MonetaryValue |-> mv, CurrencyCode |-> cc]) :
                 mv \in MonetaryValues, cc \in {None, Some(""), Some("EUR")}}
RatedPackageObjects ==
  {[BaseServiceCharge |-> b, TransportationCharges |-> t] :
     b \in {None, Charge(None), Charge(Text(<<"1", "4", ".", "4", "6">>))},
     t \in {None, Charge(Text(<<"1", "5", ".", "5", "4">>))}}
RatedPackages ==
  {None, Some(Arr(<<>>)),
   Some(Obj([BaseServiceCharge |-> None, TransportationCharges |-> None]))}
    \cup {Some(Arr(<<pk>>)) : pk \in RatedPackageObjects}
\* an entry of an alert list: null, or an object with or without Description
AlertEntries == {None, Some([Description |-> None]), Some([Description |-> Some("Delayed")])}
AlertLists == {Some(Arr(items)) : items \in SeqsUpTo(AlertEntries, MaxAlerts)}
\* a single alert object in place of a list
SingleAlert == Some(Obj([Description |-> Some("Delayed")]))
Shipment(Service, TotalCharges, RatedPackage, RatedShipmentAlert) ==
  [Service |-> Service, TotalCharges |-> TotalCharges, RatedPackage |-> RatedPackage,
   RatedShipmentAlert |-> RatedShipmentAlert]
Envelope(RatedShipment, ResponseSection) ==
  Some([RateResponse |-> Some([RatedShipment |-> RatedShipment, Response |-> ResponseSection])])
\* the body of the tests (part_000:448-460)
validUpsResponse ==
  Envelope(Some(Shipment(Some([Code |-> Some("03"), Description |-> Some("Ground")]),
                         Some([MonetaryValue |-> Text(<<"1", "5", ".", "5", "4">>),
                               CurrencyCode |-> Some("USD")]),
                         Some(Obj([BaseServiceCharge |-> Charge(Text(<<"1", "4", ".", "4", "6">>)),
                                   TransportationCharges |-> Charge(Text(<<"1", "5", ".", "5", "4">>))])),
                         None)),
           Some([Alert |-> None]))
\* bodies without the envelope or without its RatedShipment section
IncompleteBodies ==
  {None, Some([RateResponse |-> None]), Envelope(None, None)}
\* bodies that have both
CompleteBodies ==
  {Envelope(Some(Shipment(sv, tc, pk, al)), rs) :
     sv \in Services, tc \in TotalChargesValues, pk \in RatedPackages,
     al \in {None, SingleAlert} \cup AlertLists,
     rs \in {None} \cup {Some([Alert |-> ra]) : ra \in AlertLists}}
\* the shipment of the tests with other alerts and another RatedPackage
TestShipment(RatedPackage, RatedShipmentAlert) ==
  Shipment(Some([Code |-> Some("03"), Description |-> Some("Ground")]),
           Some([MonetaryValue |-> Text(<<"1", "5", ".", "5", "4">>),
                 CurrencyCode |-> Some("USD")]),
           RatedPackage, RatedShipmentAlert)
\* alert lists of up to MaxListedAlerts entries, with two different
\* descriptions, an empty one and none
ListedAlertEntries ==
  {Some([Description |-> d]) : d \in {None, Some(""), Some("Delayed"), Some("Surcharge")}}
ListedAlerts == {Some(Arr(items)) : items \in SeqsUpTo(ListedAlertEntries, MaxListedAlerts)}
\* bodies that differ in their two alert lists
AlertBodies ==
  {Envelope(Some(TestShipment(None, al)), rs) :
     al \in ListedAlerts,
     rs \in {None, Some([Alert |-> None])} \cup {Some([Alert |-> ra]) : ra \in ListedAlerts}}
\* RatedPackage entries: each charge absent, without amount, with an empty
\* amount or with an amount
RatedPackageEntries ==
  {[BaseServiceCharge |-> b, TransportationCharges |-> t] :
     b \in {None, Charge(None), Charge(Text(<<>>)), Charge(Text(<<"0">>)),
            Charge(Text(<<"1", "4", ".", "4", "6">>))},
     t \in {None, Charge(Text(<<>>)), Charge(Text(<<"1", "5", ".", "5", "4">>))}}
\* the RatedPackage section: one object, or a list of up to MaxRatedPackages
RatedPackageSections ==
  {Some(Obj(pk)) : pk \in RatedPackageEntries}
    \cup {Some(Arr(items)) : items \in SeqsUpTo(RatedPackageEntries, MaxRatedPackages)}
\* bodies that differ in their RatedPackage section
PackageBodies ==
  {Envelope(Some(TestShipment(pk, None)), None) : pk \in RatedPackageSections}
\* what parseUpsResponse is applied to
Responses == IncompleteBodies \cup CompleteBodies \cup {validUpsResponse}
\* the bodies the rate operation is explored with
Bodies ==
  IncompleteBodies \cup
    {validUpsResponse, Envelope(Some(Shipment(None, None, None, None)), None)}

\* ---- requests (domain/models/rate.ts)
\* env.shipperNumber
ShipperNumber == "SHIPPER"
Address(name, state) ==
  [name |-> name, addressLines |-> <<"123 Main St">>, city |-> "New York",
   state |-> state, postalCode |-> "10001", countryCode |-> "US"]
\* weights 25.5, 10 and 0.5 (part_000:362-436)
Weights == {Decimal(255, 1), Decimal(10, 0), Decimal(5, 1)}
Packages ==
  {[weight |-> w, weightUnit |-> wu, length |-> Decimal(12, 0), width |-> Decimal(85, 1),
    height |-> Decimal(6, 0), dimensionUnit |-> du] :
     w \in Weights, wu \in {"LBS", "KGS"}, du \in {"IN", "CM"}}
\* requests with 1..MaxPackages packages
Requests ==
  {[shipFrom |-> Address("Sender", st), shipTo |-> Address("Receiver", to),
    packages |-> pk] :
     st \in {None, Some("NY")},
     to \in {None, Some("CA")},
     pk \in SeqsUpTo(Packages, MaxPackages) \ {<<>>}}
DefaultRequest ==
  [shipFrom |-> Address("Sender", Some("NY")), shipTo |-> Address("Receiver", Some("CA")),
   packages |-> <<[weight |-> Decimal(5, 0), weightUnit |-> "LBS", length |-> Decimal(10, 0),
                   width |-> Decimal(8, 0), height |-> Decimal(6, 0), dimensionUnit |-> "IN"]>>]

VARIABLES now, token, expiresAt, refreshing, fetches, calls,
          upsResponse, parsed, rateRequest, upsRequest

\* the argument and the result of one application of parseUpsResponse and
\* of mapToUpsRequest
mapperVars == <<upsResponse, parsed, rateRequest, upsRequest>>
\* the token manager and the calls on it
pipelineVars == <<now, token, expiresAt, refreshing, fetches, calls>>
vars ==
  <<now, token, expiresAt, refreshing, fetches, calls, upsResponse, parsed, rateRequest,
    upsRequest>>

\* A call that has not been issued yet.
IdleCall ==
  [kind |-> "none", pc |-> "idle", p |-> 0, via |-> "none",
   tok |-> None, err |-> None, fresh |-> FALSE, early |-> FALSE,
   request |-> None, posts |-> 0, auth |-> None, payload |-> None, body |-> None,
   caught |-> None, thrown |-> None, quotes |-> None, result |-> None]

Init ==
  /\ now = 0
  /\ token = None
  /\ expiresAt = None
  /\ refreshing = None
  /\ fetches = <<>>
  /\ calls = [c \in Calls |-> IdleCall]
  /\ upsResponse = None
  /\ parsed = None
  /\ rateRequest = DefaultRequest
  /\ upsRequest = None

\* ------------------------------------------------------------ TokenManager
\* (mutant) the cache is never consulted
M_CacheValid_Never == FALSE

\* token-manager.ts:10  this.token && Date.now() < this.expiresAt
CacheValid == IsSome(token) /\ now < Get(expiresAt)

\* (mutant) the in-flight slot is never consulted
M_RefreshInFlight_Never == FALSE

\* token-manager.ts:14  if (this.refreshing)
RefreshInFlight == IsSome(refreshing)

\* (mutant) the safety buffer is not subtracted
M_ExpiryOf_NoBuffer(t, expires_in) == t + expires_in * MsPerSecond

\* token-manager.ts:31  Date.now() + res.expires_in * 1000 - 30000
ExpiryOf(t, expires_in) == t + expires_in * MsPerSecond - BufferMs

\* The call was issued on a cold manager before the first fetch completed.
IsEarly ==
  /\ token = None
  /\ \/ Len(fetches) = 0
     \/ Len(fetches) = 1 /\ fetches[1].state = "pending"

\* The promise getToken() returned settles: the caller gets the token or the
\* failure.
\* fresh records whether the time is strictly before the expiresAt that was
\* stored with that token.
Fulfil(rec, tk, exp) ==
  [rec EXCEPT !.pc = "done", !.tok = Some(tk), !.fresh = now < exp]

\* (mutant) the failure is replaced by a generic one
M_Reject_Generic(rec, e) ==
  [rec EXCEPT !.pc = "done",
              !.err = Some([cls |-> "Error", name |-> Some(<<"Error">>), code |-> None,
                            message |-> Some(<<"Token", "refresh", "failed">>),
                            response |-> None])]

Reject(rec, e) == [rec EXCEPT !.pc = "done", !.err = Some(e)]

\* ------------------------------------------------------- UpsRateOperation
\* (mutant) a failed attempt is posted once more before execute() gives up
M_Catch_Retry(rec, error) ==
  IF rec.pc = "posting" /\ rec.posts < 2
    THEN [rec EXCEPT !.posts = @ + 1]
    ELSE [rec EXCEPT !.pc = "settled", !.caught = Some(error),
                     !.thrown = Some(Classify(error))]
\* rate.operation.ts:71-157  the catch block: the value execute() throws
Catch(rec, error) ==
  [rec EXCEPT !.pc = "settled", !.caught = Some(error), !.thrown = Some(Classify(error))]

\* (mutant) the post is issued whether or not getToken() returned a token
M_AfterGetToken_PostAnyway(rec) ==
  IF rec.kind /= "execute" THEN rec
  ELSE [rec EXCEPT !.pc = "posting", !.posts = @ + 1, !.auth = rec.tok]
\* rate.operation.ts:52-67  execute() after `await this.tokenManager.getToken()`:
\* with a token, the request is mapped and posted with the bearer token; a
\* failure of getToken() lands in the catch block, being inside the try.
\* A bare getToken() call is complete.
AfterGetToken(rec) ==
  IF rec.kind /= "execute" THEN rec
  ELSE IF IsSome(rec.tok)
    THEN [rec EXCEPT !.pc = "posting", !.posts = @ + 1, !.auth = rec.tok,
                     !.payload = Some(mapToUpsRequest(Get(rec.request), ShipperNumber))]
    ELSE Catch([rec EXCEPT !.pc = "caught"], Get(rec.err))

\* getToken(), lines 10-18: the synchronous part up to the first await,
\* entered directly (kind "getToken") or from execute() line 52.
Enter(c, kind, request) ==
  /\ calls[c].pc = "idle"
  /\ IF c = 1 THEN TRUE ELSE calls[c - 1].pc /= "idle"
  /\ \A other \in Calls : calls[other].pc /= "settled"
  /\ \/ /\ CacheValid
        /\ calls' = [calls EXCEPT ![c] =
             AfterGetToken(Fulfil([@ EXCEPT !.kind = kind, !.request = request, !.via = "cache"],
                                  Get(token), Get(expiresAt)))]
        /\ UNCHANGED <<refreshing, fetches>>
     \/ /\ ~CacheValid
        /\ RefreshInFlight
        /\ calls' = [calls EXCEPT ![c] =
             [@ EXCEPT !.kind = kind, !.request = request, !.via = "join", !.pc = "joined",
                       !.p = Get(refreshing), !.early = IsEarly]]
        /\ UNCHANGED <<refreshing, fetches>>
     \/ /\ ~CacheValid
        /\ ~RefreshInFlight
        /\ Len(fetches) < MaxFetches
        /\ fetches' = Append(fetches,
             [state |-> "pending", access_token |-> "", expires_in |-> 0,
              at |-> 0, exp |-> 0, error |-> None])
        /\ refreshing' = Some(Len(fetches) + 1)
        /\ calls' = [calls EXCEPT ![c] =
             [@ EXCEPT !.kind = kind, !.request = request, !.via = "start", !.pc = "awaitRefresh",
                       !.p = Len(fetches) + 1, !.early = IsEarly]]
  /\ UNCHANGED <<now, token, expiresAt>>
  /\ UNCHANGED mapperVars

\* a caller invokes tokenManager.getToken()
GetToken(c) == Enter(c, "getToken", None)

\* rate.operation.ts:50-52  a caller invokes execute(request)
Execute(c) == c <= MaxExecs /\ Enter(c, "execute", Some(DefaultRequest))

\* A continuation is queued: a settled promise still has a waiting caller.
\* Queued continuations run before the next I/O completion is handled and
\* before the clock moves by a step of the model.
MicrotaskPending ==
  \E c \in Calls :
    \/ /\ calls[c].pc \in {"awaitRefresh", "joined"}
       /\ fetches[calls[c].p].state /= "pending"
    \/ calls[c].pc = "settled"

\* refresh(), lines 27-33, when fetchToken resolves.
FetchSucceed(p, tk, expires_in) ==
  /\ p \in DOMAIN fetches
  /\ tk = AccessTokenOf(p)
  /\ fetches[p].state = "pending"
  /\ ~MicrotaskPending
  /\ token' = Some(tk)
  /\ expiresAt' = Some(ExpiryOf(now, expires_in))
  /\ fetches' = [fetches EXCEPT ![p] =
       [@ EXCEPT !.state = "fulfilled", !.access_token = tk,
                 !.expires_in = expires_in, !.at = now,
                 !.exp = ExpiryOf(now, expires_in)]]
  /\ UNCHANGED <<now, refreshing, calls>>
  /\ UNCHANGED mapperVars

\* (mutant) a failed refresh drops the cached pair
M_FetchFail_DropsCache(p, e) ==
  /\ p \in DOMAIN fetches
  /\ fetches[p].state = "pending"
  /\ ~MicrotaskPending
  /\ fetches' = [fetches EXCEPT ![p] = [@ EXCEPT !.state = "rejected", !.error = Some(e)]]
  /\ token' = None
  /\ expiresAt' = None
  /\ UNCHANGED <<now, refreshing, calls>>
  /\ UNCHANGED mapperVars
\* refresh(), line 27, when fetchToken rejects: the promise of refresh()
\* rejects with the same failure.
FetchFail(p, e) ==
  /\ p \in DOMAIN fetches
  /\ fetches[p].state = "pending"
  /\ ~MicrotaskPending
  /\ fetches' = [fetches EXCEPT ![p] = [@ EXCEPT !.state = "rejected", !.error = Some(e)]]
  /\ UNCHANGED <<now, token, expiresAt, refreshing, calls>>
  /\ UNCHANGED mapperVars

\* getToken(), lines 20-23: the caller that started the refresh resumes.
\* A rejected await throws at line 20, so line 21 does not run.
Resume(c) ==
  /\ calls[c].pc = "awaitRefresh"
  /\ \/ /\ fetches[calls[c].p].state = "fulfilled"
        /\ refreshing' = None
        /\ calls' = [calls EXCEPT ![c] =
             AfterGetToken(Fulfil(@, fetches[calls[c].p].access_token,
                                  fetches[calls[c].p].exp))]
     \/ /\ fetches[calls[c].p].state = "rejected"
        /\ refreshing' = refreshing
        /\ calls' = [calls EXCEPT ![c] =
             AfterGetToken(Reject(@, Get(fetches[calls[c].p].error)))]
  /\ UNCHANGED <<now, token, expiresAt, fetches>>
  /\ UNCHANGED mapperVars

\* getToken(), line 15: the promise a joining caller returned settles as the
\* refresh promise did.
JoinSettle(c) ==
  /\ calls[c].pc = "joined"
  /\ \/ /\ fetches[calls[c].p].state = "fulfilled"
        /\ calls' = [calls EXCEPT ![c] =
             AfterGetToken(Fulfil(@, fetches[calls[c].p].access_token,
                                  fetches[calls[c].p].exp))]
     \/ /\ fetches[calls[c].p].state = "rejected"
        /\ calls' = [calls EXCEPT ![c] =
             AfterGetToken(Reject(@, Get(fetches[calls[c].p].error)))]
  /\ UNCHANGED <<now, token, expiresAt, refreshing, fetches>>
  /\ UNCHANGED mapperVars

\* Date.now() advances.
Tick(d) ==
  /\ ~MicrotaskPending
  /\ now + d <= MaxTime
  /\ now' = now + d
  /\ UNCHANGED <<token, expiresAt, refreshing, fetches, calls>>
  /\ UNCHANGED mapperVars

\* rate.operation.ts:56-70  the post resolves with a 2xx response: the body
\* is parsed; a parse failure lands in the catch block.
PostSucceed(c, data) ==
  /\ calls[c].pc = "posting"
  /\ ~MicrotaskPending
  /\ calls' = [calls EXCEPT ![c] =
       IF parseUpsResponse(data).ok
         THEN [@ EXCEPT !.pc = "settled", !.body = data,
                        !.quotes = Some(parseUpsResponse(data).quotes)]
         ELSE Catch([@ EXCEPT !.body = data], Get(parseUpsResponse(data).error))]
  /\ UNCHANGED <<now, token, expiresAt, refreshing, fetches>>
  /\ UNCHANGED mapperVars

\* rate.operation.ts:56-71  the post rejects: the catch block classifies.
PostFail(c, error) ==
  /\ calls[c].pc = "posting"
  /\ ~MicrotaskPending
  /\ calls' = [calls EXCEPT ![c] = Catch(@, error)]
  /\ UNCHANGED <<now, token, expiresAt, refreshing, fetches>>
  /\ UNCHANGED mapperVars

\* The promise of execute() has settled and its caller takes the outcome
\* (shipping.service.ts:18); afterwards only the number of posts of the call
\* is remembered.
Return(c) ==
  /\ calls[c].pc = "settled"
  /\ calls' = [calls EXCEPT ![c] =
       [IdleCall EXCEPT !.kind = calls[c].kind, !.pc = "returned", !.posts = calls[c].posts]]
  /\ UNCHANGED <<now, token, expiresAt, refreshing, fetches>>
  /\ UNCHANGED mapperVars

Next ==
  \/ \E c \in Calls : GetToken(c)
  \/ \E p \in 1..MaxFetches, e \in ExpiresIn : FetchSucceed(p, AccessTokenOf(p), e)
  \/ \E p \in 1..MaxFetches, e \in FetchErrors : FetchFail(p, e)
  \/ \E c \in Calls : Resume(c)
  \/ \E c \in Calls : JoinSettle(c)
  \/ \E d \in Steps : Tick(d)

Spec == Init /\ [][Next]_vars

\* Scheduling: every fetchToken invocation that was started completes, with
\* a token or with a failure, and the continuation of a caller whose promise
\* has settled runs (token-manager.ts:15, 20).
Fairness ==
  /\ \A p \in 1..MaxFetches :
       WF_vars(\/ \E e \in ExpiresIn : FetchSucceed(p, AccessTokenOf(p), e)
               \/ \E e \in FetchErrors : FetchFail(p, e))
  /\ \A c \in Calls : WF_vars(Resume(c)) /\ WF_vars(JoinSettle(c))

SpecLive == Spec /\ Fairness

\* The rate operation over the token manager: every call is an execute().
NextExec ==
  \/ \E c \in Calls : Execute(c)
  \/ \E p \in 1..MaxFetches, e \in ExpiresIn : FetchSucceed(p, AccessTokenOf(p), e)
  \/ \E p \in 1..MaxFetches, e \in FetchErrors : FetchFail(p, e)
  \/ \E c \in Calls : Resume(c)
  \/ \E c \in Calls : JoinSettle(c)
  \/ \E d \in ExecSteps : Tick(d)
  \/ \E c \in Calls, data \in Bodies : PostSucceed(c, data)
  \/ \E c \in Calls, error \in TransportErrors : PostFail(c, error)
  \/ \E c \in Calls : Return(c)

SpecExec == Init /\ [][NextExec]_vars

\* --------------------------------------------------------- ShippingService
\* requests a caller hands to getRates(): without packages, with one and
\* with two
ServiceRequests ==
  {[DefaultRequest EXCEPT !.packages = <<>>], DefaultRequest,
   [DefaultRequest EXCEPT !.packages = @ \o @]}
\* what the transport rejects with, where the service is explored
ServiceTransportErrors ==
  {PlainNetworkError,
   ErrorValue("AxiosError", NameOf("AxiosError"), Some("ERR_BAD_RESPONSE"), Some(MsgStatus),
              Some(Response(Some(500), Some(None), Some("error-body"))))}

\* (mutant) the schema accepts every request
M_RateRequestSchema_AcceptAll(request) == TRUE
\* part_006:29-35  RateRequestSchema.parse(request) succeeds: the packages
\* list has at least one entry (the addresses and packages of the model's
\* requests are well-formed)
RateRequestSchema(request) == Len(request.packages) >= 1

\* shipping.service.ts:8-19  getRates(request): a request the schema rejects
\* is answered with a ValidationError; any other is handed to execute()
GetRates(c, request) ==
  /\ c <= MaxExecs
  /\ IF RateRequestSchema(request)
       THEN Enter(c, "execute", Some(request))
       ELSE /\ calls[c].pc = "idle"
            /\ IF c = 1 THEN TRUE ELSE calls[c - 1].pc /= "idle"
            /\ \A other \in Calls : calls[other].pc /= "settled"
            /\ calls' = [calls EXCEPT ![c] =
                 [@ EXCEPT !.kind = "getRates", !.request = Some(request), !.pc = "settled",
                           !.thrown = Some(ThrowNew(ValidationError))]]
            /\ UNCHANGED <<now, token, expiresAt, refreshing, fetches>>
            /\ UNCHANGED mapperVars

\* what a settled call delivers: the quotes, or the value thrown
Outcome(rec) == [quotes |-> rec.quotes, thrown |-> rec.thrown]
\* (mutant) the service wraps a failure of the operation
M_Forward_Wrapped(outcome) ==
  IF IsSome(outcome.thrown)
    THEN [outcome EXCEPT !.thrown = Some(ThrowNew(ValidationError))]
    ELSE outcome
\* shipping.service.ts:18  `return this.rateOperation.execute(request)`: the
\* promise of execute() is the promise of getRates()
Forward(outcome) == outcome

\* shipping.service.ts:8-19  getRates() settles: with its own ValidationError,
\* or with what execute() delivered
GetRatesReturn(c) ==
  /\ calls[c].pc = "settled"
  /\ calls' = [calls EXCEPT ![c] =
       [@ EXCEPT !.pc = "returned",
                 !.result = Some(IF calls[c].kind = "execute"
                                   THEN Forward(Outcome(calls[c]))
                                   ELSE Outcome(calls[c]))]]
  /\ UNCHANGED <<now, token, expiresAt, refreshing, fetches>>
  /\ UNCHANGED mapperVars

NextService ==
  \/ \E c \in Calls, request \in ServiceRequests : GetRates(c, request)
  \/ \E p \in 1..MaxFetches, e \in ExpiresIn : FetchSucceed(p, AccessTokenOf(p), e)
  \/ \E p \in 1..MaxFetches, e \in FetchErrors : FetchFail(p, e)
  \/ \E c \in Calls : Resume(c)
  \/ \E c \in Calls : JoinSettle(c)
  \/ \E d \in ExecSteps : Tick(d)
  \/ \E c \in Calls : PostSucceed(c, validUpsResponse)
  \/ \E c \in Calls, error \in ServiceTransportErrors : PostFail(c, error)
  \/ \E c \in Calls : GetRatesReturn(c)

SpecService == Init /\ [][NextService]_vars

\* ------------------------------------------------- the mapper on its own
\* parseUpsResponse applied once to a response body
InitParse ==
  /\ now = 0
  /\ token = None
  /\ expiresAt = None
  /\ refreshing = None
  /\ fetches = <<>>
  /\ calls = [c \in Calls |-> IdleCall]
  /\ \/ upsResponse \in Responses
     \/ upsResponse \in AlertBodies
     \/ upsResponse \in PackageBodies
  /\ parsed = None
  /\ rateRequest = DefaultRequest
  /\ upsRequest = None

ParseUpsResponse ==
  /\ parsed = None
  /\ parsed' = Some(parseUpsResponse(upsResponse))
  /\ UNCHANGED <<upsResponse, rateRequest, upsRequest, pipelineVars>>

NextParse == ParseUpsResponse

SpecParse == InitParse /\ [][NextParse]_vars

\* mapToUpsRequest applied once to a request
InitMap ==
  /\ now = 0
  /\ token = None
  /\ expiresAt = None
  /\ refreshing = None
  /\ fetches = <<>>
  /\ calls = [c \in Calls |-> IdleCall]
  /\ upsResponse = None
  /\ parsed = None
  /\ rateRequest \in Requests
  /\ upsRequest = None

MapToUpsRequest ==
  /\ upsRequest = None
  /\ upsRequest' = Some(mapToUpsRequest(rateRequest, ShipperNumber))
  /\ UNCHANGED <<upsResponse, parsed, rateRequest, pipelineVars>>

NextMap == MapToUpsRequest

SpecMap == InitMap /\ [][NextMap]_vars

\* ===================================================== claims on TokenManager
Issued(c) == calls[c].pc /= "idle"
Waiting(c) == calls[c].pc \in {"awaitRefresh", "joined"}
Returned(c) == calls[c].pc = "done" /\ IsSome(calls[c].tok)
Failed(c) == calls[c].pc = "done" /\ IsSome(calls[c].err)
Outstanding == {p \in DOMAIN fetches : fetches[p].state = "pending"}
\* the step issues call c
Issues(c) == calls[c].pc = "idle" /\ calls'[c].pc /= "idle"
\* the step invokes fetchToken
StartsFetch == Len(fetches') = Len(fetches) + 1

\* C1: at most one fetchToken invocation is outstanding at any moment, and a
\* caller waiting while a fetch is outstanding waits on that fetch, the one
\* held in the in-flight slot.
C1_SingleFlight ==
  /\ Cardinality(Outstanding) <= 1
  /\ \A c \in Calls :
       (Waiting(c) /\ Outstanding /= {}) =>
          (fetches[calls[c].p].state = "pending" => refreshing = Some(calls[c].p))
  /\ \A c \in Calls :
       (Waiting(c) /\ calls[c].via = "join" /\ calls[c].p \in Outstanding) =>
          \E i \in Calls : i /= c /\ calls[i].via = "start" /\ calls[i].p = calls[c].p

C1_Witness ==
  /\ Cardinality(Outstanding) = 1
  /\ \E c \in Calls : Waiting(c) /\ calls[c].via = "start" /\ calls[c].p \in Outstanding
  /\ \E c \in Calls : Waiting(c) /\ calls[c].via = "join" /\ calls[c].p \in Outstanding
  /\ IsSome(token) /\ now >= Get(expiresAt)

\* C2: as long as every call issued so far was issued on the cold manager
\* before the first fetch completed, fetchToken has been invoked exactly
\* once; and when that fetch succeeded with token T, each of these calls that
\* has completed resolved to T.
C2_ColdBurst ==
  /\ ((\E c \in Calls : Issued(c)) /\ (\A c \in Calls : Issued(c) => calls[c].early))
        => Len(fetches) = 1
  /\ \A c \in Calls :
       (calls[c].early /\ calls[c].pc = "done" /\ fetches[1].state = "fulfilled") =>
          /\ calls[c].tok = Some(fetches[1].access_token)
          /\ calls[c].err = None

C2_Witness ==
  /\ \A c \in Calls : calls[c].early /\ Returned(c) /\ calls[c].tok = Some("token-1")
  /\ Len(fetches) = 1

\* C3: a getToken() call issued while a token is cached and the time is
\* strictly before expiresAt returns the cached token in that step, invokes
\* no fetch and leaves token, expiresAt and the in-flight slot as they were;
\* so inside the validity window of a successful fetch that fetch is the
\* latest one invoked.
C3_CacheHit ==
  [][ /\ \A c \in Calls :
           (Issues(c) /\ IsSome(token) /\ now < Get(expiresAt)) =>
              /\ calls'[c].pc = "done"
              /\ calls'[c].tok = token
              /\ fetches' = fetches
              /\ token' = token /\ expiresAt' = expiresAt /\ refreshing' = refreshing
      /\ (IsSome(token) /\ now < Get(expiresAt)) =>
              fetches[Len(fetches)].state = "fulfilled"
    ]_vars

C3_Witness ==
  /\ Len(fetches) = 1
  /\ Cardinality({c \in Calls : Returned(c) /\ calls[c].via = "cache"}) >= 2
  /\ now > fetches[1].at

\* The refresh operation has not finished: its fetch is outstanding or the
\* caller that started it has not resumed yet.
RefreshUnfinished == \E c \in Calls : calls[c].pc = "awaitRefresh"

\* C4: a successful refresh at time t with expires_in = E sets expiresAt to
\* t + E*1000 - 30000; a getToken() call issued with no refresh in flight
\* starts a fetch if the time is >= expiresAt and starts none if it is
\* strictly before.
C4_ExpiryRule ==
  [][ /\ \A p \in DOMAIN fetches :
           (fetches[p].state = "pending" /\ p \in DOMAIN fetches'
              /\ fetches'[p].state = "fulfilled") =>
              expiresAt' = Some(now + fetches'[p].expires_in * 1000 - 30000)
      /\ \A c \in Calls :
           (Issues(c) /\ IsSome(expiresAt) /\ ~RefreshUnfinished) =>
              (StartsFetch <=> now >= Get(expiresAt))
    ]_vars

\* C5: once a refresh has completed and its outcome was delivered, the
\* in-flight slot no longer holds it, whether it succeeded or failed; a call
\* issued after a failed refresh with no valid cached token starts a fetch.
C5_MarkerCleared ==
  [][ /\ \A c \in Calls :
           (calls'[c].pc = "done" /\ calls'[c].via = "start") =>
              refreshing' /= Some(calls'[c].p)
      /\ \A c \in Calls :
           (/\ Issues(c)
            /\ ~(IsSome(token) /\ now < Get(expiresAt))
            /\ Len(fetches) > 0
            /\ fetches[Len(fetches)].state = "rejected"
            /\ ~RefreshUnfinished) => StartsFetch
    ]_vars

\* C6: a caller whose refresh failed, the one that started it or one that
\* joined it, gets exactly the failure fetchToken raised and no token; every
\* fetchToken invocation was started by a getToken() call of its own (the
\* manager retries nothing).
C6_FailurePropagates ==
  /\ \A c \in Calls :
       (calls[c].pc = "done" /\ calls[c].via \in {"start", "join"}
          /\ fetches[calls[c].p].state = "rejected") =>
          /\ calls[c].err = fetches[calls[c].p].error
          /\ calls[c].tok = None
  /\ Len(fetches) = Cardinality({c \in Calls : calls[c].via = "start"})

C6_Witness ==
  /\ \E c \in Calls : Failed(c) /\ calls[c].via = "start"
       /\ calls[c].err = Some(ConnRefusedError)
  /\ Cardinality({c \in Calls : Failed(c) /\ calls[c].via = "join"
                                  /\ calls[c].err = Some(ConnRefusedError)}) >= 2
  /\ Len(fetches) = 1

\* C7 (as claimed): every token getToken() returns is unexpired under the
\* buffer rule at the moment it is returned, for every expires_in.
C7_ReturnedTokenValid ==
  \A c \in Calls : Returned(c) => calls[c].fresh

\* C7 (amended): a token returned from the cache is unexpired when returned;
\* a token returned by a refresh, to the caller that started it or to one
\* that joined it, is unexpired when returned exactly when the expires_in of
\* that refresh exceeds the 30 s buffer.
C7_ReturnedTokenValidIfLongLived ==
  \A c \in Calls :
    Returned(c) =>
      IF calls[c].via = "cache" THEN calls[c].fresh
      ELSE calls[c].fresh <=> fetches[calls[c].p].expires_in * 1000 > 30000

C7_Witness ==
  /\ \E c \in Calls : Returned(c) /\ calls[c].via = "start" /\ ~calls[c].fresh
  /\ \E c \in Calls : Returned(c) /\ calls[c].via = "join" /\ calls[c].fresh

\* ================================================= claims on UpsRateOperation
\* execute() of call c has thrown and its caller has not taken the failure yet
Threw(c) == calls[c].pc = "settled" /\ IsSome(calls[c].thrown)
\* ... and the failure came from getToken()
TokenFailed(c) == Threw(c) /\ IsSome(calls[c].err)
\* ... and the failure came from the transport post or from parsing
PipelineFailed(c) == Threw(c) /\ calls[c].err = None
\* the members execute() may raise
RaisedTaxonomy == Taxonomy \ {"ValidationError"}
\* the response status of the failure call c caught, 0 when it has none
CaughtStatus(c) ==
  IF IsSome(StatusOf(Get(calls[c].caught))) THEN Get(StatusOf(Get(calls[c].caught))) ELSE 0

\* C8: when getToken() fails inside execute(), execute() throws that very
\* failure, not a taxonomy member made from it, and has posted nothing.
C8_TokenFailureUnclassified ==
  \A c \in Calls :
    TokenFailed(c) =>
      /\ calls[c].thrown = Some(Rethrow(Get(calls[c].err)))
      /\ calls[c].posts = 0

\* C9: whatever the transport or the parser raised, execute() throws one
\* member of the taxonomy: a member it constructed, or the caught value when
\* that already is a member; never the raw failure and never an exception of
\* the catch block itself.
C9_AlwaysClassified ==
  \A c \in Calls :
    PipelineFailed(c) =>
      /\ Get(calls[c].thrown).how /= "secondary"
      /\ Get(calls[c].thrown).value.cls \in RaisedTaxonomy

\* C10: a transport failure with response status s, 400 <= s <= 599, makes
\* execute() throw AuthenticationError for 401, HttpClientError(400) for 400,
\* RateLimitError for 429, HttpClientError(s) for any other 4xx and
\* HttpServerError(s, retryable = true) for 5xx.
C10_StatusTable ==
  \A c \in Calls :
    (PipelineFailed(c) /\ CaughtStatus(c) >= 400 /\ CaughtStatus(c) <= 599) =>
      LET st == CaughtStatus(c)
          t == Get(calls[c].thrown)
      IN /\ t.how = "new"
         /\ t.value.cls =
              IF st = 401 THEN "AuthenticationError"
              ELSE IF st = 429 THEN "RateLimitError"
              ELSE IF st < 500 THEN "HttpClientError"
              ELSE "HttpServerError"
         /\ st /= 429 => t.value.statusCode = Some(st)
         /\ st >= 500 => t.value.retryable = Some(TRUE)

\* the headers object of the response call c caught (None when there is none)
CaughtHeaders(c) == Get(Get(calls[c].caught).response).headers
\* a retry-after value that is a number of seconds
IsSeconds(chars) == Len(chars) > 0 /\ \A i \in DOMAIN chars : IsDigit(chars[i])

\* C11: a transport failure with status 429 always makes execute() throw a
\* RateLimitError, also when the response has no headers or a zero or
\* non-numeric retry-after; its retryAfterMs is 1000 * h for a retry-after
\* header of h seconds and is absent when the header is absent.
C11_RetryAfter ==
  \A c \in Calls :
    (PipelineFailed(c) /\ CaughtStatus(c) = 429) =>
      LET t == Get(calls[c].thrown)
          h == CaughtHeaders(c)
      IN /\ t.how = "new"
         /\ t.value.cls = "RateLimitError"
         /\ (h = None \/ h = Some(None)) => t.value.retryAfterMs = None
         /\ (IsSome(h) /\ IsSome(Get(h)) /\ IsSeconds(Get(Get(h)))) =>
              t.value.retryAfterMs =
                Some(Num(1000 * DigitsValue(Get(Get(h)), Len(Get(Get(h))))))

\* execute() of call c has returned quotes and its caller has not taken them yet
Succeeded(c) == calls[c].pc = "settled" /\ IsSome(calls[c].quotes)

\* C12: an execution that obtained a token has issued exactly one post, while
\* the post is outstanding and after it has succeeded or failed; no execution
\* ever issues a second one.
C12_OnePost ==
  \A c \in Calls :
    /\ calls[c].posts <= 1
    /\ calls[c].pc = "posting" => calls[c].posts = 1
    /\ (Succeeded(c) \/ PipelineFailed(c)) => calls[c].posts = 1

\* C12 witness: one execution ended with a retryable failure of its post and
\* another with quotes, each after a single post.
C12_Witness ==
  \E c, d \in Calls :
    /\ PipelineFailed(c)
    /\ Get(calls[c].thrown).how = "new"
    /\ Get(calls[c].thrown).value.retryable = Some(TRUE)
    /\ calls[c].posts = 1
    /\ calls[d].pc = "returned"
    /\ calls[d].posts = 1

\* C13: a post exists only for a call to which getToken() has returned a
\* token, never while the call still waits for its token or after getToken()
\* failed, and the bearer token of the post is the token returned to the call.
C13_TokenBeforePost ==
  \A c \in Calls :
    /\ (Waiting(c) \/ IsSome(calls[c].err)) => (calls[c].posts = 0 /\ calls[c].auth = None)
    /\ (calls[c].posts > 0 /\ calls[c].pc /= "returned") =>
         /\ IsSome(calls[c].tok)
         /\ calls[c].auth = calls[c].tok
         /\ calls[c].via \in {"start", "join"} =>
              calls[c].tok = Some(fetches[calls[c].p].access_token)

\* C13 witness: two calls have their posts outstanding, the first with the
\* token of the first refresh and the second, which found that token
\* expired, with the token of the refresh it started itself.
C13_Witness ==
  \E c, d \in Calls :
    /\ calls[c].pc = "posting"
    /\ calls[c].auth = Some(AccessTokenOf(1))
    /\ calls[d].pc = "posting"
    /\ calls[d].via = "start"
    /\ calls[d].auth = Some(AccessTokenOf(2))

\* the post of call c resolved and parseUpsResponse rejected its body
ParseFailed(c) ==
  /\ PipelineFailed(c)
  /\ IsSome(calls[c].body)
  /\ Get(calls[c].caught).message \in {Some(MsgMissingRateResponse), Some(MsgMissingRatedShipment)}
  /\ Get(calls[c].caught).response = None

\* C14: when the post succeeds and the body has no RateResponse envelope or
\* no RatedShipment section, execute() throws a MalformedResponseError whose
\* rawResponse carries the body the transport returned (as delivered or as
\* its JSON text).
C14_MalformedCarriesBody ==
  \A c \in Calls :
    ParseFailed(c) =>
      LET t == Get(calls[c].thrown)
      IN /\ t.how = "new"
         /\ t.value.cls = "MalformedResponseError"
         /\ t.value.rawResponse \in {JsonStringify(calls[c].body), RawBody(calls[c].body)}

\* ============================================== claims on parseUpsResponse
\* the result of the application, once it has been made
Result == Get(parsed)
\* the response has the RateResponse envelope and its RatedShipment section
HasBoth(body) ==
  /\ IsSome(body)
  /\ IsSome(Get(body).RateResponse)
  /\ IsSome(Get(Get(body).RateResponse).RatedShipment)
\* the RatedShipment section of such a response
ShipmentOf(body) == Get(Get(Get(body).RateResponse).RatedShipment)
\* the failure is one of the two missing-field conditions
MissingField(error) ==
  /\ IsSome(error)
  /\ Get(error).message \in {Some(MsgMissingRateResponse), Some(MsgMissingRatedShipment)}

\* C15: parseUpsResponse fails with a missing-field condition exactly when
\* the response lacks the RateResponse envelope or its RatedShipment section;
\* on every response that has both it returns normally.
C15_FailsExactlyWhenMissing ==
  IsSome(parsed) =>
    /\ ~HasBoth(upsResponse) => (~Result.ok /\ MissingField(Result.error))
    /\ HasBoth(upsResponse) => Result.ok

\* the value of the numerals among the MonetaryValue texts
NumeralValue(chars) ==
  CASE chars = <<"0">> -> [nan |-> FALSE, m |-> 0, d |-> 0]
    [] chars = <<"1", "5", ".", "5", "4">> -> [nan |-> FALSE, m |-> 1554, d |-> 2]
    [] chars = <<"7", ".", "5", "0">> -> [nan |-> FALSE, m |-> 75, d |-> 1]
    [] chars = <<"1", "4", ".", "4", "6">> -> [nan |-> FALSE, m |-> 1446, d |-> 2]
IsNumeral(chars) ==
  chars \in {<<"0">>, <<"1", "5", ".", "5", "4">>, <<"7", ".", "5", "0">>,
             <<"1", "4", ".", "4", "6">>}

\* C16: whenever parseUpsResponse returns, it returns exactly one quote, with
\* carrier "UPS", serviceCode the Service.Code of the response and amount the
\* number TotalCharges.MonetaryValue denotes.
C16_SingleQuote ==
  (IsSome(parsed) /\ Result.ok) =>
    LET RatedShipment == ShipmentOf(upsResponse)
        q == Result.quotes[1]
    IN /\ Len(Result.quotes) = 1
       /\ q.carrier = "UPS"
       /\ (IsSome(RatedShipment.Service) /\ IsSome(Get(RatedShipment.Service).Code)) =>
            q.serviceCode = Get(Get(RatedShipment.Service).Code)
       /\ (/\ IsSome(RatedShipment.TotalCharges)
           /\ IsSome(Get(RatedShipment.TotalCharges).MonetaryValue)
           /\ IsNumeral(Get(Get(RatedShipment.TotalCharges).MonetaryValue))) =>
            q.amount = NumeralValue(Get(Get(RatedShipment.TotalCharges).MonetaryValue))

\* C16 witness: the response of the tests has been parsed into the quote
\* with serviceCode "03" and amount 15.54.
C16_Witness ==
  /\ upsResponse = validUpsResponse
  /\ IsSome(parsed)
  /\ Result.ok
  /\ Result.quotes[1].serviceCode = "03"
  /\ Result.quotes[1].amount = [nan |-> FALSE, m |-> 1554, d |-> 2]

\* TotalCharges.<field> of the response is absent
TotalAbsent(RatedShipment, field) ==
  \/ RatedShipment.TotalCharges = None
  \/ Get(RatedShipment.TotalCharges)[field] = None

Built == Get(upsRequest).RateRequest.Shipment
\* the decimal text of the weights and of the package counts
WeightText(weight) ==
  CASE weight = [nan |-> FALSE, m |-> 255, d |-> 1] -> <<"2", "5", ".", "5">>
    [] weight = [nan |-> FALSE, m |-> 10, d |-> 0] -> <<"1", "0">>
    [] weight = [nan |-> FALSE, m |-> 5, d |-> 1] -> <<"0", ".", "5">>
CountText(n) ==
  CASE n = 1 -> <<"1">> [] n = 2 -> <<"2">> [] n = 3 -> <<"3">> [] n = 4 -> <<"4">>

\* C18: for a request with N >= 1 packages the document has N Package
\* entries and NumOfPieces = String(N), and entry i carries the weight text
\* (no trailing zero added), the weight unit and the dimension unit of
\* package i.
C18_PackagesMapped ==
  (IsSome(upsRequest) /\ Len(rateRequest.packages) >= 1) =>
    /\ Len(Built.Package) = Len(rateRequest.packages)
    /\ Built.NumOfPieces = CountText(Len(rateRequest.packages))
    /\ \A i \in DOMAIN rateRequest.packages :
         /\ Built.Package[i].PackageWeight.Weight = WeightText(rateRequest.packages[i].weight)
         /\ Built.Package[i].PackageWeight.UnitOfMeasurement.Code =
              rateRequest.packages[i].weightUnit
         /\ Built.Package[i].Dimensions.UnitOfMeasurement.Code =
              rateRequest.packages[i].dimensionUnit

\* C18 witness: a request with two different packages, of weights 25.5 and
\* 10, has been mapped, in that order.
C18_Witness ==
  /\ IsSome(upsRequest)
  /\ Len(rateRequest.packages) = 2
  /\ Built.NumOfPieces = <<"2">>
  /\ Built.Package[1].PackageWeight.Weight = <<"2", "5", ".", "5">>
  /\ Built.Package[2].PackageWeight.Weight = <<"1", "0">>

\* C19: in every Package entry the unit codes are those of the input
\* package, with LBS described as "Pounds", KGS as "Kilograms", IN as
\* "Inches" and CM as "Centimeters".
C19_UnitsAgree ==
  IsSome(upsRequest) =>
    \A i \in DOMAIN rateRequest.packages :
      LET wu == Built.Package[i].PackageWeight.UnitOfMeasurement
          du == Built.Package[i].Dimensions.UnitOfMeasurement
      IN /\ wu.Code = rateRequest.packages[i].weightUnit
         /\ du.Code = rateRequest.packages[i].dimensionUnit
         /\ <<wu.Code, wu.Description>> \in {<<"LBS", "Pounds">>, <<"KGS", "Kilograms">>}
         /\ <<du.Code, du.Description>> \in {<<"IN", "Inches">>, <<"CM", "Centimeters">>}

\* C19 witness: a request with a KGS/CM package and an LBS/IN package has
\* been mapped.
C19_Witness ==
  /\ IsSome(upsRequest)
  /\ Len(rateRequest.packages) = 2
  /\ Built.Package[1].PackageWeight.UnitOfMeasurement.Description = "Kilograms"
  /\ Built.Package[1].Dimensions.UnitOfMeasurement.Description = "Centimeters"
  /\ Built.Package[2].PackageWeight.UnitOfMeasurement.Description = "Pounds"
  /\ Built.Package[2].Dimensions.UnitOfMeasurement.Description = "Inches"

\* ================================================ claims on ShippingService
\* getRates(request) of call c was answered by the service itself
Rejected(c) == calls[c].kind = "getRates" /\ calls[c].pc \in {"settled", "returned"}

\* C20: a request that fails the schema (one without packages) makes
\* getRates() throw a ValidationError without invoking execute(): the call
\* starts or joins no token fetch and posts nothing, and that step leaves the
\* token manager as it was; execute() is only ever entered with a request
\* that has packages.
C20_RejectedBeforePipeline ==
  /\ [](\A c \in Calls :
          IsSome(calls[c].request) =>
            /\ ~RateRequestSchema(Get(calls[c].request)) =>
                 /\ Rejected(c)
                 /\ calls[c].thrown = Some(ThrowNew(ValidationError))
                 /\ calls[c].via = "none"
                 /\ calls[c].posts = 0
            /\ calls[c].kind = "execute" => Len(Get(calls[c].request).packages) >= 1)
  /\ [][\A c \in Calls :
          (calls[c].pc = "idle" /\ calls'[c].kind = "getRates") =>
            (fetches' = fetches /\ refreshing' = refreshing /\ token' = token)]_vars

\* C20 witness: one call was rejected for its empty packages list while
\* another, with a package, has its post outstanding.
C20_Witness ==
  \E c, d \in Calls :
    /\ Rejected(c)
    /\ Get(calls[c].request).packages = <<>>
    /\ calls[c].thrown = Some(ThrowNew(ValidationError))
    /\ calls[d].pc = "posting"
    /\ Len(Get(calls[d].request).packages) >= 1

\* getRates(request) of call c has settled after execute() was invoked
Forwarded(c) == calls[c].kind = "execute" /\ calls[c].pc = "returned"

\* C21: for a request that passes validation, getRates() invokes execute()
\* with that very request, once, and settles exactly as execute() did: the
\* quotes unchanged, or the failure execute() threw, unchanged.
C21_ServiceForwards ==
  /\ [](\A c \in Calls :
          Forwarded(c) =>
            calls[c].result = Some([quotes |-> calls[c].quotes, thrown |-> calls[c].thrown]))
  /\ [][\A c \in Calls : \A request \in ServiceRequests :
          (GetRates(c, request) /\ RateRequestSchema(request)) =>
            (calls'[c].kind = "execute" /\ calls'[c].request = Some(request))]_vars
  /\ [][\A c \in Calls :
          calls[c].kind = "execute" =>
            /\ calls'[c].kind = "execute"
            /\ calls'[c].request = calls[c].request
            /\ calls'[c].pc /= "idle"]_vars

\* C21 witness: one call delivered the quotes of execute() and another, for
\* a different request, the HttpServerError execute() threw.
C21_Witness ==
  \E c, d \in Calls :
    /\ Forwarded(c)
    /\ IsSome(Get(calls[c].result).quotes)
    /\ Forwarded(d)
    /\ calls[d].request /= calls[c].request
    /\ IsSome(Get(calls[d].result).thrown)
    /\ Get(Get(calls[d].result).thrown).value.cls = "HttpServerError"

\* ===================================== claims on the order of classification
\* the failure execute() of call c caught
Caught(c) == Get(calls[c].caught)
\* a member of the taxonomy of part_005
IsTaxonomyMember(error) == error.cls \in Taxonomy
\* the failure indicates a timeout: by its code or by its message
IndicatesTimeout(error) ==
  error.code = Some("ECONNABORTED") \/ MessageIncludes(error, "timeout")
\* the failure has a DNS or connection-refused code
IndicatesNetwork(error) == error.code \in {Some("ENOTFOUND"), Some("ECONNREFUSED")}
\* the class the listed order of rules assigns to a failure ("same": the
\* failure itself)
FirstMatch(error) ==
  IF StatusOf(error) = Some(401) THEN "AuthenticationError"
  ELSE IF StatusOf(error) = Some(400) THEN "HttpClientError"
  ELSE IF StatusOf(error) = Some(429) THEN "RateLimitError"
  ELSE IF HasStatus(error) /\ Get(StatusOf(error)) \in 400..499 THEN "HttpClientError"
  ELSE IF HasStatus(error) /\ Get(StatusOf(error)) \in 500..599 THEN "HttpServerError"
  ELSE IF IndicatesTimeout(error) THEN "TimeoutError"
  ELSE IF IndicatesNetwork(error) THEN "NetworkError"
  ELSE IF MessageIncludes(error, "JSON") \/ error.cls = "SyntaxError" THEN "MalformedResponseError"
  ELSE IF MessageIncludes(error, "missing") \/ MessageIncludes(error, "RateResponse")
    THEN "MalformedResponseError"
  ELSE IF IsTaxonomyMember(error) THEN "same"
  ELSE "HttpServerError"

\* C22: what execute() throws is decided by the first rule, in the listed
\* order, that the caught failure matches: a status between 400 and 599
\* decides alone, a timeout indication wins over a network code, and only a
\* failure that no earlier rule matches is re-thrown (when it is a taxonomy
\* member) or becomes the catch-all HttpServerError.
C22_FirstMatchDecides ==
  \A c \in Calls :
    (Threw(c) /\ IsSome(calls[c].caught)) =>
      LET t == Get(calls[c].thrown)
      IN IF FirstMatch(Caught(c)) = "same"
           THEN t = Rethrow(Caught(c))
           ELSE t.how = "new" /\ t.value.cls = FirstMatch(Caught(c))

\* execute() of call c caught a failure that carries no response status
CaughtWithoutStatus(c) ==
  Threw(c) /\ IsSome(calls[c].caught) /\ StatusOf(Caught(c)) = None

\* C23: a caught failure without response status whose code is ECONNABORTED
\* or whose message contains 'timeout' makes execute() throw a new
\* TimeoutError whose timeoutMs is 30000.
C23_TimeoutClassified ==
  \A c \in Calls :
    (CaughtWithoutStatus(c) /\ IndicatesTimeout(Caught(c))) =>
      LET t == Get(calls[c].thrown)
      IN /\ t.how = "new"
         /\ t.value.cls = "TimeoutError"
         /\ t.value.timeoutMs = Some(30000)

\* C23 witness: a call caught a failure without code and without response
\* whose message names a timeout, and threw a TimeoutError of 30000 ms.
C23_Witness ==
  \E c \in Calls :
    /\ CaughtWithoutStatus(c)
    /\ Caught(c).code = None
    /\ Caught(c).response = None
    /\ MessageIncludes(Caught(c), "timeout")
    /\ Get(calls[c].thrown).value.cls = "TimeoutError"
    /\ Get(calls[c].thrown).value.timeoutMs = Some(30000)

\* C24: a caught failure without response status and without timeout
\* indication whose code is ENOTFOUND or ECONNREFUSED makes execute() throw a
\* new NetworkError whose originalError is the caught failure.
C24_NetworkClassified ==
  \A c \in Calls :
    (CaughtWithoutStatus(c) /\ ~IndicatesTimeout(Caught(c)) /\ IndicatesNetwork(Caught(c))) =>
      LET t == Get(calls[c].thrown)
      IN /\ t.how = "new"
         /\ t.value.cls = "NetworkError"
         /\ t.value.originalError = Some(Caught(c))

\* C25: a caught failure that is a member of the taxonomy is re-thrown as it
\* is, whatever its message; and a caught failure that execute() re-throws as
\* it is, is a member of the taxonomy.
C25_RethrowIdempotent ==
  \A c \in Calls :
    (Threw(c) /\ IsSome(calls[c].caught)) =>
      (IsTaxonomyMember(Caught(c)) <=> Get(calls[c].thrown) = Rethrow(Caught(c)))

\* the failure matches one of the rules that precede the catch-all
MatchesSomeRule(error) ==
  \/ HasStatus(error) /\ Get(StatusOf(error)) \in 400..599
  \/ IndicatesTimeout(error)
  \/ IndicatesNetwork(error)
  \/ MessageIncludes(error, "JSON") \/ error.cls = "SyntaxError"
  \/ MessageIncludes(error, "missing") \/ MessageIncludes(error, "RateResponse")
  \/ IsTaxonomyMember(error)

\* C26: a caught failure that matches none of the rules makes execute() throw
\* a new HttpServerError with statusCode 500 and retryable = true; and every
\* HttpServerError execute() constructs has retryable = true.
C26_CatchAll ==
  \A c \in Calls :
    (Threw(c) /\ IsSome(calls[c].caught)) =>
      LET t == Get(calls[c].thrown)
      IN /\ ~MatchesSomeRule(Caught(c)) =>
              /\ t.how = "new"
              /\ t.value.cls = "HttpServerError"
              /\ t.value.statusCode = Some(500)
         /\ (t.how = "new" /\ t.value.cls = "HttpServerError") =>
              t.value.retryable = Some(TRUE)

\* ============================================ claims on concurrent executions
\* execute() of call c was called on the cold manager: no token cached and
\* the first fetch not yet completed
ColdConcurrent(c) == calls[c].kind = "execute" /\ calls[c].early
\* the step completes the post of call c
PostCompletes(c) == calls[c].pc = "posting" /\ calls'[c].pc = "settled"

C28_FailsOnlyByFetch ==
  \A c \in Calls :
    /\ Failed(c) =>
         /\ calls[c].via \in {"start", "join"}
         /\ fetches[calls[c].p].state = "rejected"
         /\ calls[c].err = fetches[calls[c].p].error
         /\ calls[c].tok = None
    /\ (calls[c].pc = "done" /\ calls[c].via = "cache") =>
         (calls[c].err = None /\ IsSome(calls[c].tok))
    /\ (calls[c].pc = "done" /\ calls[c].via \in {"start", "join"}
          /\ fetches[calls[c].p].state = "fulfilled") =>
         (calls[c].err = None /\ calls[c].tok = Some(fetches[calls[c].p].access_token))

\* C28 witness: the first fetch succeeded and its caller has the token; after
\* the token expired a second fetch failed, and both the call that started
\* it and a call that joined it failed with the failure of that fetch.
C28_Witness ==
  \E c, d, j \in Calls :
    /\ Returned(c) /\ calls[c].p = 1 /\ calls[c].tok = Some(AccessTokenOf(1))
    /\ Failed(d) /\ calls[d].via = "start" /\ calls[d].p = 2
    /\ Failed(j) /\ calls[j].via = "join" /\ calls[j].p = 2
    /\ calls[d].err = Some(PlainNetworkError)
    /\ calls[j].err = Some(PlainNetworkError)
    /\ fetches[2].error = Some(PlainNetworkError)

\* ================================= claims on alerts and package charges
\* the Description of an alert entry, the empty text when it has none
DescriptionOf(alert) ==
  IF Get(alert).Description = None THEN "" ELSE Get(Get(alert).Description)
NonEmpty(description) == description /= ""
\* the descriptions an alert location holds, in the order of its list
DescriptionsAt(alertList) ==
  IF alertList = None \/ ~Get(alertList).isArray THEN <<>>
  ELSE SelectSeq([i \in 1..Len(Get(alertList).items) |-> DescriptionOf(Get(alertList).items[i])],
                 NonEmpty)
\* the list at RateResponse.Response.Alert of a response
ResponseAlertOf(body) ==
  IF Get(Get(body).RateResponse).Response = None THEN None
  ELSE Get(Get(Get(body).RateResponse).Response).Alert

\* C29: the alerts of the quote are the descriptions of
\* RatedShipment.RatedShipmentAlert, in the order of that list, followed by
\* those of RateResponse.Response.Alert, in the order of that list; the field
\* is absent when neither list holds a description.
C29_AlertsInOrder ==
  (IsSome(parsed) /\ Result.ok) =>
    LET expected == DescriptionsAt(ShipmentOf(upsResponse).RatedShipmentAlert)
                      \o DescriptionsAt(ResponseAlertOf(upsResponse))
        q == Result.quotes[1]
    IN IF expected = <<>> THEN q.alerts = None ELSE q.alerts = Some(expected)

\* C29 witness: a response with the shipment alerts Surcharge, Delayed and
\* the response alerts Delayed, Surcharge has been parsed into a quote whose
\* alerts are these four in that order.
C29_Witness ==
  /\ IsSome(parsed)
  /\ Result.ok
  /\ HasBoth(upsResponse)
  /\ Len(AlertItems(ShipmentOf(upsResponse).RatedShipmentAlert)) = 2
  /\ Result.quotes[1].alerts = Some(<<"Surcharge", "Delayed", "Delayed", "Surcharge">>)

\* the charge carries an amount: a MonetaryValue that is not the empty text
CarriesAmount(charge) ==
  /\ IsSome(charge)
  /\ IsSome(Get(charge).MonetaryValue)
  /\ Get(Get(charge).MonetaryValue) /= <<>>
\* the number a charge of the quote must be for the charge of the response
ChargeAgrees(quoted, charge) ==
  IF CarriesAmount(charge)
    THEN /\ IsSome(quoted)
         /\ IsNumeral(Get(Get(charge).MonetaryValue)) =>
              Get(quoted) = NumeralValue(Get(Get(charge).MonetaryValue))
    ELSE quoted = None

\* C30: the RatedPackage section is read as an object or as a list, and of a
\* list only the first entry; baseCharge is present exactly when that entry
\* carries a BaseServiceCharge amount and transportationCharge exactly when it
\* carries a TransportationCharges amount, and each is the number of its own
\* amount.
C30_FirstPackageCharges ==
  (IsSome(parsed) /\ Result.ok) =>
    LET section == ShipmentOf(upsResponse).RatedPackage
        q == Result.quotes[1]
        entries == IF section = None THEN <<>>
                   ELSE IF Get(section).isArray THEN Get(section).items
                   ELSE <<Get(section).fields>>
    IN IF entries = <<>>
         THEN q.baseCharge = None /\ q.transportationCharge = None
         ELSE /\ ChargeAgrees(q.baseCharge, entries[1].BaseServiceCharge)
              /\ ChargeAgrees(q.transportationCharge, entries[1].TransportationCharges)

\* C30 witness: of a list of two entries, the first with a base charge only
\* and the second with a transportation charge only, the quote has the base
\* charge 14.46 and no transportation charge.
C30_Witness ==
  /\ IsSome(parsed)
  /\ Result.ok
  /\ HasBoth(upsResponse)
  /\ ShipmentOf(upsResponse).RatedPackage =
       Some(Arr(<<[BaseServiceCharge |-> Charge(Text(<<"1", "4", ".", "4", "6">>)),
                   TransportationCharges |-> None],
                  [BaseServiceCharge |-> None,
                   TransportationCharges |-> Charge(Text(<<"1", "5", ".", "5", "4">>))]>>))
  /\ Result.quotes[1].baseCharge = Some([nan |-> FALSE, m |-> 1446, d |-> 2])
  /\ Result.quotes[1].transportationCharge = None

\* ========================================= claims on the service of a quote
\* Service.<field> of the response, the empty string when the section or the
\* field is absent
ServiceFieldOrEmpty(RatedShipment, field) ==
  IF RatedShipment.Service = None THEN ""
  ELSE IF Get(RatedShipment.Service)[field] = None THEN ""
  ELSE Get(Get(RatedShipment.Service)[field])

\* C31: the quote carries the Service.Code of the response as serviceCode and
\* its Service.Description as serviceName, and each is the empty string when
\* the response does not have it.
C31_ServiceDefaults ==
  (IsSome(parsed) /\ Result.ok) =>
    LET RatedShipment == ShipmentOf(upsResponse)
        q == Result.quotes[1]
    IN /\ q.serviceCode = ServiceFieldOrEmpty(RatedShipment, "Code")
       /\ q.serviceName = Some(ServiceFieldOrEmpty(RatedShipment, "Description"))

\* ================================== claims on the address blocks of a request
\* the state of an input address, the empty string when it has none
StateOrEmpty(address) == IF address.state = None THEN "" ELSE Get(address.state)
\* the block carries this name and the lines, city, state, postal code and
\* country of this address
BlockCarries(block, name, address) ==
  /\ block.Name = name
  /\ block.Address.AddressLine = address.addressLines
  /\ block.Address.City = address.city
  /\ block.Address.StateProvinceCode = StateOrEmpty(address)
  /\ block.Address.PostalCode = address.postalCode
  /\ block.Address.CountryCode = address.countryCode

\* C32: in the document built, Shipper and ShipFrom carry the name and the
\* address of shipFrom and ShipTo those of shipTo, each with StateProvinceCode
\* the state of the input address or "" when it has none; the shipper number
\* given is Shipper.ShipperNumber and the AccountNumber of BillShipper.
C32_AddressBlocks ==
  IsSome(upsRequest) =>
    /\ BlockCarries(Built.Shipper, rateRequest.shipFrom.name, rateRequest.shipFrom)
    /\ BlockCarries(Built.ShipFrom, rateRequest.shipFrom.name, rateRequest.shipFrom)
    /\ BlockCarries(Built.ShipTo, rateRequest.shipTo.name, rateRequest.shipTo)
    /\ Built.Shipper.ShipperNumber = ShipperNumber
    /\ Built.PaymentDetails.ShipmentCharge.BillShipper.AccountNumber = ShipperNumber

\* C32 witness: a request whose shipFrom has no state and whose shipTo is in
\* CA has been mapped: Shipper and ShipFrom have the state "", ShipTo "CA".
C32_Witness ==
  /\ IsSome(upsRequest)
  /\ rateRequest.shipFrom.state = None
  /\ rateRequest.shipTo.state = Some("CA")
  /\ Built.Shipper.Name = "Sender"
  /\ Built.Shipper.Address.StateProvinceCode = ""
  /\ Built.ShipFrom.Address.StateProvinceCode = ""
  /\ Built.ShipTo.Address.StateProvinceCode = "CA"
  /\ Built.Shipper.ShipperNumber = "SHIPPER"

\* ======================================= claims on the cached credential
\* the fetches that have completed successfully
Fulfilled == {p \in DOMAIN fetches : fetches[p].state = "fulfilled"}
\* the latest of them that was started before fetch p (0: none)
LastFulfilledBefore(p) ==
  IF \E q \in Fulfilled : q < p
    THEN CHOOSE q \in Fulfilled : q < p /\ \A r \in Fulfilled : r < p => r <= q
    ELSE 0
\* the step completes a fetch successfully
FetchCompletes ==
  \E p \in DOMAIN fetches : fetches[p].state = "pending" /\ fetches'[p].state = "fulfilled"
\* the step is the failure of a fetch
FetchFails ==
  \E p \in DOMAIN fetches : fetches[p].state = "pending" /\ fetches'[p].state = "rejected"

\* C33: the step in which fetchToken fails changes neither token nor
\* expiresAt, and no step between the start of a refresh and its failure
\* does; so while the latest refresh is a failed one, the pair is absent when
\* no refresh before it succeeded and is otherwise the pair of the last one
\* that did.
C33_FailedRefreshKeepsCache ==
  /\ [][FetchFails => (token' = token /\ expiresAt' = expiresAt)]_vars
  /\ [][~FetchCompletes => (token' = token /\ expiresAt' = expiresAt)]_vars
  /\ [](\A p \in DOMAIN fetches :
          (fetches[p].state = "rejected" /\ \A q \in Fulfilled : q < p) =>
            IF LastFulfilledBefore(p) = 0
              THEN token = None /\ expiresAt = None
              ELSE /\ token = Some(fetches[LastFulfilledBefore(p)].access_token)
                   /\ expiresAt = Some(fetches[LastFulfilledBefore(p)].exp))

\* C33 witness: the first refresh stored token-1, the token expired, and the
\* second refresh failed: the expired pair of the first is still cached.
C33_Witness ==
  /\ Len(fetches) = 2
  /\ fetches[1].state = "fulfilled"
  /\ fetches[2].state = "rejected"
  /\ token = Some(AccessTokenOf(1))
  /\ expiresAt = Some(fetches[1].exp)
  /\ now >= Get(expiresAt)

\* the most recently completed successful fetch (fetches complete in the
\* order they were started, one being in flight at a time)
LatestFulfilled == CHOOSE q \in Fulfilled : \A r \in Fulfilled : r <= q

\* C34: token is present exactly when expiresAt is; both are absent until a
\* fetch has succeeded, and afterwards token is the access_token of the most
\* recently completed successful fetch and expiresAt its completion time plus
\* expires_in * 1000 minus 30000; a step that issues a getToken() call which
\* hits the cache or joins a refresh changes neither.
C34_CachedPair ==
  /\ []((token = None) <=> (expiresAt = None))
  /\ [](IF Fulfilled = {}
          THEN token = None
          ELSE /\ token = Some(fetches[LatestFulfilled].access_token)
               /\ expiresAt = Some(fetches[LatestFulfilled].at
                                     + fetches[LatestFulfilled].expires_in * 1000 - 30000))
  /\ [][\A c \in Calls :
          (Issues(c) /\ calls'[c].via \in {"cache", "join"}) =>
            (token' = token /\ expiresAt' = expiresAt)]_vars

\* C34 witness: two fetches have succeeded at different times; the cache
\* holds the token and the expiry of the second, and a call that joined the
\* second refresh has returned.
C34_Witness ==
  /\ Fulfilled = {1, 2}
  /\ fetches[2].at > fetches[1].at
  /\ token = Some(AccessTokenOf(2))
  /\ expiresAt = Some(fetches[2].at + fetches[2].expires_in * 1000 - 30000)
  /\ expiresAt /= Some(fetches[1].exp)
  /\ \E c \in Calls : Returned(c) /\ calls[c].via = "join" /\ calls[c].p = 2

\* ========================================== claims on short-lived tokens
\* the cached token came from a fetch whose expires_in does not exceed the
\* buffer of 30 seconds
ShortLivedCached ==
  Fulfilled /= {} /\ fetches[LatestFulfilled].expires_in <= 30
\* no getToken() call is pending and no fetch is outstanding: calls are made
\* one after the other
Sequential == Outstanding = {} /\ \A c \in Calls : ~Waiting(c)

\* C35: once a refresh with expires_in <= 30 has completed and its caller has
\* resumed, every getToken() call made while no other call is pending starts a
\* new fetch, whatever the time; so sequential calls cause one fetch each.
C35_ShortLivedNeverCached ==
  [][\A c \in Calls :
       (Issues(c) /\ ShortLivedCached /\ Sequential) => StartsFetch]_vars

\* ================================================= claims on termination
\* no getToken() call is pending
NoCallPending == \A c \in Calls : ~Waiting(c)

\* C36: every getToken() call that waits, having started a refresh or joined
\* one, eventually completes; and whenever no call is pending the in-flight
\* slot is absent.
C36_EveryCallCompletes ==
  /\ \A c \in Calls : Waiting(c) ~> (calls[c].pc = "done")
  /\ [](NoCallPending => refreshing = None)

====
